---- MODULE Spec2Model ----
(***************************************************************************)
(* The offender ingestion endpoint POST /infrator/upload-csv               *)
(* (src/routes/infratorRouter.py, upload_csv) over the offender            *)
(* collection.  Strings are sequences of one-character strings, so that    *)
(* strip, lower, endswith and the f-string key are computed as the code    *)
(* computes them.  Timestamps are the integers 1..3; NaT is 0.             *)
(***************************************************************************)
EXTENDS Integers, Sequences, FiniteSets, TLC

\* Bounds of the model.
MaxRows == 2
MaxRuns == 2
MaxBatch == 3

\* erros[:10] in the response.
MaxErros == 10

AllProcs == {1, 2}

-----------------------------------------------------------------------------
(* Strings *)

RECURSIVE LStrip(_)
LStrip(s) == IF s # <<>> /\ Head(s) = " " THEN LStrip(Tail(s)) ELSE s

RECURSIVE RStrip(_)
RStrip(s) ==
    IF s # <<>> /\ s[Len(s)] = " " THEN RStrip(SubSeq(s, 1, Len(s) - 1)) ELSE s

\* str.strip()
Strip(s) == RStrip(LStrip(s))

LowerChar(c) ==
    CASE c = "A" -> "a"
      [] c = "B" -> "b"
      [] c = "C" -> "c"
      [] c = "D" -> "d"
      [] c = "N" -> "n"
      [] c = "P" -> "p"
      [] c = "S" -> "s"
      [] c = "V" -> "v"
      [] c = "X" -> "x"
      [] c = "Y" -> "y"
      [] OTHER -> c

\* str.lower()
Lower(s) == [i \in 1..Len(s) |-> LowerChar(s[i])]

\* str.endswith(suffix)
EndsWith(s, suffix) ==
    /\ Len(s) >= Len(suffix)
    /\ SubSeq(s, Len(s) - Len(suffix) + 1, Len(s)) = suffix

DotCsv == <<".", "c", "s", "v">>

\* x in list
InList(x, l) == \E i \in 1..Len(l) : l[i] = x

NoDup(l) == \A i, j \in 1..Len(l) : l[i] = l[j] => i = j

Min(S) == CHOOSE x \in S : \A y \in S : x <= y
Max(S) == CHOOSE x \in S : \A y \in S : x >= y

-----------------------------------------------------------------------------
(* The uploaded file and pd.read_csv *)

NOME == "NOME_INFRATOR"
DT_INICIO == "DT_INICIO_ATO_INEQUIVOCO"
DT_FIM == "DT_FIM_ATO_INEQUIVOCO"
MUNICIPIO == "MUNICIPIO"
UF == "UF"
DES_INFRACAO == "DES_INFRACAO"
INFRACAO_AREA == "INFRACAO_AREA"
DES_LOCAL == "DES_LOCAL_INFRACAO"

Columns == {NOME, DT_INICIO, DT_FIM, MUNICIPIO, UF, DES_INFRACAO, INFRACAO_AREA, DES_LOCAL}

required_columns == <<NOME, DT_INICIO, DT_FIM>>

\* The cell texts pd.read_csv turns into NaN when called, as here, without
\* keep_default_na / na_values (those of them over the model's alphabet).
NaTexts == { <<>>, <<"N", "A">>, <<"n", "a", "n">>, <<"N", "a", "N">>,
             <<"n", "u", "l", "l">>, <<"N", "/", "A">> }

NaN == [na |-> TRUE, s |-> <<>>]

\* One cell of the DataFrame read with dtype=str.
ReadCsvCell(text) == IF text \in NaTexts THEN NaN ELSE [na |-> FALSE, s |-> text]

NaT == 0

\* pd.to_datetime(column, errors='coerce') on one cell: the texts "1".."3"
\* stand for three increasing instants, every other text is unparseable.
ToDatetime(v) ==
    IF v.na THEN NaT
    ELSE CASE v.s = <<"1">> -> 1
           [] v.s = <<"2">> -> 2
           [] v.s = <<"3">> -> 3
           [] OTHER -> NaT

DtInicioConverted(f, i) == ToDatetime(ReadCsvCell(f.rows[i][DT_INICIO]))
DtFimConverted(f, i) == ToDatetime(ReadCsvCell(f.rows[i][DT_FIM]))

RowHasValidDates(f, i) == DtInicioConverted(f, i) # NaT /\ DtFimConverted(f, i) # NaT

\* dropna on the start date alone.
DfValidStartOnly(f) ==
    SelectSeq([i \in 1..Len(f.rows) |-> i], LAMBDA i : DtInicioConverted(f, i) # NaT)

\* df.dropna(subset=[...]): the indices of the rows kept, in file order.
DfValid(f) == SelectSeq([i \in 1..Len(f.rows) |-> i], LAMBDA i : RowHasValidDates(f, i))

\* get_safe_value without the strip.
get_safe_value_unstripped(f, i, column_name) ==
    IF column_name \notin f.cols THEN <<>>
    ELSE LET value == ReadCsvCell(f.rows[i][column_name])
         IN  IF value.na \/ Lower(value.s) = <<"n", "a", "n">> THEN <<>>
             ELSE value.s

\* get_safe_value(row, column_name, default="")
get_safe_value(f, i, column_name) ==
    IF column_name \notin f.cols THEN <<>>
    ELSE LET value == ReadCsvCell(f.rows[i][column_name])
         IN  IF value.na \/ Lower(value.s) = <<"n", "a", "n">> THEN <<>>
             ELSE Strip(value.s)

\* f"{nome_infrator}_{municipio}_{estado}"
MakeKey(nome, municipio, estado) == nome \o <<"_">> \o municipio \o <<"_">> \o estado

-----------------------------------------------------------------------------
(* Grouping of the valid rows by key (the loop over df_valid.iterrows()) *)

\* The position of key in the insertion-ordered dict infratores_agrupados, 0 if absent.
GroupIndex(grupos, key) ==
    IF \E j \in 1..Len(grupos) : grupos[j].key = key
    THEN CHOOSE j \in 1..Len(grupos) : grupos[j].key = key
    ELSE 0

\* The accumulator whose history starts with the description, blank or not.
NewGroupAlwaysEntry(f, i, key, nome, municipio, estado, nova_infracao) ==
    [ key |-> key,
      nome_infrator |-> nome,
      infracao_area |-> get_safe_value(f, i, INFRACAO_AREA),
      municipio |-> municipio,
      estado |-> estado,
      des_local_infracao |-> get_safe_value(f, i, DES_LOCAL),
      historico_infracoes |-> <<nova_infracao>>,
      dt_inicio |-> DtInicioConverted(f, i),
      dt_fim |-> DtFimConverted(f, i),
      total |-> 1 ]

\* if key not in infratores_agrupados: the accumulator of the first row of a key.
NewGroup(f, i, key, nome, municipio, estado, nova_infracao) ==
    [ key |-> key,
      nome_infrator |-> nome,
      infracao_area |-> get_safe_value(f, i, INFRACAO_AREA),
      municipio |-> municipio,
      estado |-> estado,
      des_local_infracao |-> get_safe_value(f, i, DES_LOCAL),
      historico_infracoes |-> IF nova_infracao # <<>> THEN <<nova_infracao>> ELSE <<>>,
      dt_inicio |-> DtInicioConverted(f, i),
      dt_fim |-> DtFimConverted(f, i),
      total |-> 1 ]

\* The merge with the end date never raised.
MergeRowNoEnd(g, nova_infracao, dt_inicio, dt_fim) ==
    [ g EXCEPT
        !.historico_infracoes =
            IF nova_infracao # <<>> /\ ~InList(nova_infracao, @)
            THEN Append(@, nova_infracao) ELSE @,
        !.dt_inicio = IF dt_inicio < @ THEN dt_inicio ELSE @,
        !.total = @ + 1 ]

\* The merge without the membership test on the history.
MergeRowAlwaysAppend(g, nova_infracao, dt_inicio, dt_fim) ==
    [ g EXCEPT
        !.historico_infracoes = IF nova_infracao # <<>> THEN Append(@, nova_infracao) ELSE @,
        !.dt_inicio = IF dt_inicio < @ THEN dt_inicio ELSE @,
        !.dt_fim = IF dt_fim > @ THEN dt_fim ELSE @,
        !.total = @ + 1 ]

\* The merge with the membership test ignoring case.
MergeRowIgnoreCase(g, nova_infracao, dt_inicio, dt_fim) ==
    [ g EXCEPT
        !.historico_infracoes =
            IF nova_infracao # <<>> /\ ~(\E n \in 1..Len(@) : Lower(@[n]) = Lower(nova_infracao))
            THEN Append(@, nova_infracao) ELSE @,
        !.dt_inicio = IF dt_inicio < @ THEN dt_inicio ELSE @,
        !.dt_fim = IF dt_fim > @ THEN dt_fim ELSE @,
        !.total = @ + 1 ]

\* The merge that keeps the dates of the first row.
MergeRowKeepDates(g, nova_infracao, dt_inicio, dt_fim) ==
    [ g EXCEPT
        !.historico_infracoes =
            IF nova_infracao # <<>> /\ ~InList(nova_infracao, @)
            THEN Append(@, nova_infracao) ELSE @,
        !.total = @ + 1 ]

\* else: a later row of a key already grouped.
MergeRow(g, nova_infracao, dt_inicio, dt_fim) ==
    [ g EXCEPT
        !.historico_infracoes =
            IF nova_infracao # <<>> /\ ~InList(nova_infracao, @)
            THEN Append(@, nova_infracao) ELSE @,
        !.dt_inicio = IF dt_inicio < @ THEN dt_inicio ELSE @,
        !.dt_fim = IF dt_fim > @ THEN dt_fim ELSE @,
        !.total = @ + 1 ]

\* A row-level error message "Linha {index + 1}: ..." (index is 0-based in the
\* code, rows are numbered from 1 here).
RowError(i) == [tipo |-> "linha", linha |-> i]

\* One iteration of the loop body on the row of index i.
ProcessRow(acc, f, i) ==
    LET nome == get_safe_value(f, i, NOME)
        municipio == get_safe_value(f, i, MUNICIPIO)
        estado == get_safe_value(f, i, UF)
    IN  IF nome = <<>>
        THEN [acc EXCEPT !.erros = Append(@, RowError(i))]
        ELSE LET key == MakeKey(nome, municipio, estado)
                 nova_infracao == get_safe_value(f, i, DES_INFRACAO)
                 j == GroupIndex(acc.grupos, key)
             IN  IF j = 0
                 THEN [acc EXCEPT !.grupos =
                          Append(@, NewGroup(f, i, key, nome, municipio, estado, nova_infracao))]
                 ELSE [acc EXCEPT !.grupos[j] =
                          MergeRow(@, nova_infracao, DtInicioConverted(f, i), DtFimConverted(f, i))]

RECURSIVE GroupRows(_, _, _)
GroupRows(acc, f, idxs) ==
    IF idxs = <<>> THEN acc
    ELSE GroupRows(ProcessRow(acc, f, Head(idxs)), f, Tail(idxs))

\* infratores_agrupados and erros after the loop.
Agrupar(f) == GroupRows([grupos |-> <<>>, erros |-> <<>>], f, DfValid(f))

-----------------------------------------------------------------------------
(* The snapshot of the collection and the reconciliation against it *)

DocKey(doc) == MakeKey(doc.nome_infrator, doc.municipio, doc.estado)

\* The dict existing_infratores built by the scan: for every key the last
\* document of the collection that has it, with its _id (its position).
Snapshot(st) ==
    LET keys == {DocKey(st[i]) : i \in 1..Len(st)}
    IN  [k \in keys |->
           LET id == Max({i \in 1..Len(st) : DocKey(st[i]) = k})
           IN  [id |-> id, historico_infracoes |-> st[id].historico_infracoes]]

EmptySnapshot == [k \in {} |-> [id |-> 0, historico_infracoes |-> <<>>]]

\* The entries of the group's history that the snapshot's history lacks, in order.
NovasInfracoes(hist, existing) == SelectSeq(hist, LAMBDA x : ~InList(x, existing))

\* infrator_data_clean: the group without its auxiliary fields.
CleanDoc(g) ==
    [ nome_infrator |-> g.nome_infrator,
      infracao_area |-> g.infracao_area,
      municipio |-> g.municipio,
      estado |-> g.estado,
      des_local_infracao |-> g.des_local_infracao,
      historico_infracoes |-> g.historico_infracoes,
      dt_inicio_ato_inequivoco |-> g.dt_inicio,
      dt_fim_ato_inequivoco |-> g.dt_fim ]

UpdateData(id, novas, g) ==
    [id |-> id, novas_infracoes |-> novas, dt_inicio |-> g.dt_inicio, dt_fim |-> g.dt_fim]

\* The classification with the update carrying the group's whole history.
ClassifyGroupWholeHistory(acc, g, snap) ==
    IF g.key \in DOMAIN snap
    THEN LET novas == NovasInfracoes(g.historico_infracoes, snap[g.key].historico_infracoes)
         IN  IF novas # <<>>
             THEN [acc EXCEPT !.atualizar =
                      Append(@, UpdateData(snap[g.key].id, g.historico_infracoes, g))]
             ELSE acc
    ELSE [acc EXCEPT !.inserir = Append(@, CleanDoc(g))]

\* The classification without the test on novas_infracoes.
ClassifyGroupAlwaysUpdate(acc, g, snap) ==
    IF g.key \in DOMAIN snap
    THEN LET novas == NovasInfracoes(g.historico_infracoes, snap[g.key].historico_infracoes)
         IN  [acc EXCEPT !.atualizar = Append(@, UpdateData(snap[g.key].id, novas, g))]
    ELSE [acc EXCEPT !.inserir = Append(@, CleanDoc(g))]

\* One iteration of the loop over infratores_agrupados.items().
ClassifyGroup(acc, g, snap) ==
    IF g.key \in DOMAIN snap
    THEN LET novas == NovasInfracoes(g.historico_infracoes, snap[g.key].historico_infracoes)
         IN  IF novas # <<>>
             THEN [acc EXCEPT !.atualizar = Append(@, UpdateData(snap[g.key].id, novas, g))]
             ELSE acc
    ELSE [acc EXCEPT !.inserir = Append(@, CleanDoc(g))]

RECURSIVE ReconcileFrom(_, _, _)
ReconcileFrom(acc, grupos, snap) ==
    IF grupos = <<>> THEN acc
    ELSE ReconcileFrom(ClassifyGroup(acc, Head(grupos), snap), Tail(grupos), snap)

\* The reconciliation against nothing, whatever the snapshot holds.
ReconcileWithoutSnapshot(grupos, snap) ==
    ReconcileFrom([inserir |-> <<>>, atualizar |-> <<>>], grupos, EmptySnapshot)

\* infratores_para_inserir and infratores_para_atualizar.
Reconcile(grupos, snap) == ReconcileFrom([inserir |-> <<>>, atualizar |-> <<>>], grupos, snap)

-----------------------------------------------------------------------------
(* The two writes *)

\* The history replaced by the new entries.
AddToSetReplace(hist, novas) == novas

RECURSIVE AddToSet(_, _)
\* {"$addToSet": {"historico_infracoes": {"$each": novas}}}
AddToSet(hist, novas) ==
    IF novas = <<>> THEN hist
    ELSE AddToSet(IF InList(Head(novas), hist) THEN hist ELSE Append(hist, Head(novas)),
                  Tail(novas))

\* The update document that sets both dates whenever the record was found.
UpdateFieldsAlwaysSet(update_data, existing_doc) ==
    [ addToSet |-> update_data.novas_infracoes,
      set_inicio |-> existing_doc.found,
      set_fim |-> existing_doc.found,
      dt_inicio |-> update_data.dt_inicio,
      dt_fim |-> update_data.dt_fim ]

\* The update document with both comparisons the other way round.
UpdateFieldsReversed(update_data, existing_doc) ==
    [ addToSet |-> update_data.novas_infracoes,
      set_inicio |-> existing_doc.found
                     /\ update_data.dt_inicio > existing_doc.doc.dt_inicio_ato_inequivoco,
      set_fim |-> existing_doc.found
                  /\ update_data.dt_fim < existing_doc.doc.dt_fim_ato_inequivoco,
      dt_inicio |-> update_data.dt_inicio,
      dt_fim |-> update_data.dt_fim ]

\* The update document built from update_data and the re-read existing_doc.
\* existing_doc is [found |-> FALSE] when find_one returns None.
UpdateFields(update_data, existing_doc) ==
    [ addToSet |-> update_data.novas_infracoes,
      set_inicio |-> existing_doc.found
                     /\ update_data.dt_inicio < existing_doc.doc.dt_inicio_ato_inequivoco,
      set_fim |-> existing_doc.found
                  /\ update_data.dt_fim > existing_doc.doc.dt_fim_ato_inequivoco,
      dt_inicio |-> update_data.dt_inicio,
      dt_fim |-> update_data.dt_fim ]

\* The update with $set on the history in place of $addToSet.
ApplyUpdateOverwrite(doc, uf) ==
    [ doc EXCEPT
        !.historico_infracoes = uf.addToSet,
        !.dt_inicio_ato_inequivoco = IF uf.set_inicio THEN uf.dt_inicio ELSE @,
        !.dt_fim_ato_inequivoco = IF uf.set_fim THEN uf.dt_fim ELSE @ ]

\* The update that also blanks the area of the record.
ApplyUpdateClearsArea(doc, uf) ==
    [ doc EXCEPT
        !.historico_infracoes = AddToSet(@, uf.addToSet),
        !.infracao_area = <<>>,
        !.dt_inicio_ato_inequivoco = IF uf.set_inicio THEN uf.dt_inicio ELSE @,
        !.dt_fim_ato_inequivoco = IF uf.set_fim THEN uf.dt_fim ELSE @ ]

\* update_one({"_id": id}, update_fields) applied to the stored document.
ApplyUpdate(doc, uf) ==
    [ doc EXCEPT
        !.historico_infracoes = AddToSet(@, uf.addToSet),
        !.dt_inicio_ato_inequivoco = IF uf.set_inicio THEN uf.dt_inicio ELSE @,
        !.dt_fim_ato_inequivoco = IF uf.set_fim THEN uf.dt_fim ELSE @ ]

-----------------------------------------------------------------------------
(* The uploads the model draws from *)

Row(nome, municipio, uf, des, ini, fim, area) ==
    [c \in Columns |->
        CASE c = NOME -> nome
          [] c = MUNICIPIO -> municipio
          [] c = UF -> uf
          [] c = DES_INFRACAO -> des
          [] c = DT_INICIO -> ini
          [] c = DT_FIM -> fim
          [] c = INFRACAO_AREA -> area
          [] OTHER -> <<"L">>]

Rows ==
    { Row(<<"A">>, <<"X">>, <<"S">>, <<"c">>, <<"2">>, <<"2">>, <<"a">>),
      Row(<<"A">>, <<"X">>, <<"S">>, <<"p">>, <<"1">>, <<"3">>, <<"b">>),
      Row(<<"A">>, <<"X">>, <<"S">>, <<"q">>, <<"2">>, <<"3">>, <<"a">>),
      Row(<<" ", "A">>, <<"X">>, <<"S">>, <<>>, <<"1">>, <<"3">>, <<"a">>),
      Row(<<"B">>, <<"X">>, <<"S">>, <<"c", " ">>, <<"2">>, <<"2">>, <<"a">>),
      Row(<<"B">>, <<"X">>, <<"S">>, <<"p">>, <<"1">>, <<"3">>, <<"a">>),
      Row(<<" ">>, <<"X">>, <<"S">>, <<"c">>, <<"2">>, <<"2">>, <<"a">>),
      Row(<<>>, <<"X">>, <<"S">>, <<"p">>, <<"1">>, <<"2">>, <<"a">>),
      Row(<<"A">>, <<"X">>, <<"S">>, <<"p">>, <<"x">>, <<"3">>, <<"a">>),
      Row(<<" ">>, <<"X">>, <<"S">>, <<"c">>, <<"2">>, <<"x">>, <<"a">>) }

RowSeqs == UNION {[1..n -> Rows] : n \in 0..MaxRows}

CsvName == <<"f">> \o DotCsv

File(filename, utf8, cols, rows) ==
    [filename |-> filename, utf8 |-> utf8, cols |-> cols, rows |-> rows]

\* Well-formed uploads: a .csv name, decodable, all columns.
GoodFiles == {File(CsvName, TRUE, Columns, rows) : rows \in RowSeqs}

OneRow == CHOOSE rows \in RowSeqs : Len(rows) = 1 /\ RowHasValidDates([rows |-> rows], 1)

\* Uploads with a wrong name, undecodable bytes or a column left out.
OddFiles ==
    { File(<<"f", ".", "t", "x", "t">>, TRUE, Columns, OneRow),
      File(<<"f", ".", "C", "S", "V">>, TRUE, Columns, OneRow),
      File(CsvName, FALSE, Columns, OneRow),
      File(CsvName, TRUE, Columns \ {NOME}, OneRow),
      File(CsvName, TRUE, Columns \ {DT_INICIO}, OneRow),
      File(CsvName, TRUE, Columns \ {DT_FIM}, OneRow),
      File(<<"f", ".", "t", "x", "t">>, TRUE, Columns \ {NOME}, OneRow),
      File(CsvName, TRUE, Columns \ {MUNICIPIO, DES_LOCAL}, OneRow) }

Files == GoodFiles \cup OddFiles

NoFile == File(<<>>, TRUE, {}, <<>>)

\* Rows of four offenders, two of which have an underscore in a field:
\* (A_X, Y, S) and (A, X_Y, S).
KeyRows ==
    { Row(<<"A", "_", "X">>, <<"Y">>, <<"S">>, <<"c">>, <<"2">>, <<"2">>, <<"a">>),
      Row(<<"A">>, <<"X", "_", "Y">>, <<"S">>, <<"p">>, <<"1">>, <<"3">>, <<"b">>),
      Row(<<"B">>, <<"X">>, <<"S">>, <<"c">>, <<"2">>, <<"2">>, <<"a">>),
      Row(<<"B">>, <<"X">>, <<"S">>, <<"p">>, <<"1">>, <<"3">>, <<"a">>),
      Row(<<"D">>, <<"X">>, <<"S">>, <<"c">>, <<"2">>, <<"2">>, <<"a">>) }

\* Rows of one offender with three starts and two ends.
ConcRows ==
    { Row(<<"A">>, <<"X">>, <<"S">>, <<"c">>, <<"3">>, <<"3">>, <<"a">>),
      Row(<<"A">>, <<"X">>, <<"S">>, <<"p">>, <<"2">>, <<"2">>, <<"a">>),
      Row(<<"A">>, <<"X">>, <<"S">>, <<"q">>, <<"1">>, <<"3">>, <<"b">>) }

\* Well-formed uploads of these rows.
ConcFiles ==
    {File(CsvName, TRUE, Columns, rows) : rows \in UNION {[1..n -> ConcRows] : n \in 0..MaxRows}}

\* Rows of one offender whose descriptions differ in case, in surrounding
\* blanks, or are blank, and rows with the text NA as description or name.
TextRows ==
    { Row(<<"A">>, <<"X">>, <<"S">>, <<"c">>, <<"2">>, <<"2">>, <<"a">>),
      Row(<<"A">>, <<"X">>, <<"S">>, <<"p">>, <<"1">>, <<"3">>, <<"b">>),
      Row(<<"A">>, <<"X">>, <<"S">>, <<"C">>, <<"2">>, <<"2">>, <<"a">>),
      Row(<<"A">>, <<"X">>, <<"S">>, <<" ", "c">>, <<"2">>, <<"3">>, <<"a">>),
      Row(<<"A">>, <<"X">>, <<"S">>, <<" ">>, <<"2">>, <<"2">>, <<"a">>),
      Row(<<"A">>, <<"X">>, <<"S">>, <<>>, <<"1">>, <<"3">>, <<"a">>),
      Row(<<"A">>, <<"X">>, <<"S">>, <<"N", "A">>, <<"2">>, <<"2">>, <<"a">>),
      Row(<<"N", "A">>, <<"X">>, <<"S">>, <<"c">>, <<"2">>, <<"2">>, <<"a">>) }

\* Well-formed uploads of these rows.
TextFiles ==
    {File(CsvName, TRUE, Columns, rows) : rows \in UNION {[1..n -> TextRows] : n \in 0..MaxRows}}

\* Well-formed uploads of up to MaxBatch of these rows.
BatchFiles ==
    {File(CsvName, TRUE, Columns, rows) : rows \in UNION {[1..n -> KeyRows] : n \in 0..MaxBatch}}

-----------------------------------------------------------------------------
(* The request handler up to its first storage call *)

\* HTTPException(status_code=...) and the other exceptions the body raises.
HTTPException(status_code) == [exc |-> "HTTPException", status_code |-> status_code]
NoException == [exc |-> "none", status_code |-> 0]

missing_columns(f) == SelectSeq(required_columns, LAMBDA col : col \notin f.cols)

\* The checks with the column check left out.
ValidateNoColumns(f) ==
    IF ~EndsWith(f.filename, DotCsv) THEN HTTPException(400)
    ELSE IF ~f.utf8 THEN [exc |-> "UnicodeDecodeError", status_code |-> 0]
    ELSE NoException

\* Lines 23-49: what the checks before the date conversion raise.
Validate(f) ==
    IF ~EndsWith(f.filename, DotCsv) THEN HTTPException(400)
    ELSE IF ~f.utf8 THEN [exc |-> "UnicodeDecodeError", status_code |-> 0]
    ELSE IF missing_columns(f) # <<>> THEN HTTPException(400)
    ELSE NoException

\* except Exception as e: raise HTTPException(status_code=500, ...).  The
\* handler wraps the whole body, the HTTPException(400) raised by the checks
\* included (HTTPException is an Exception).
OuterExcept(e) == HTTPException(500)

ErrorResponse(e) == [status |-> e.status_code]

\* The summary returned at the end of a run.
Summary(f, erros_, inseridos_, atualizados_) ==
    [ status |-> 200,
      total_registros |-> Len(f.rows),
      registros_validos |-> Len(DfValid(f)),
      registros_com_datas_invalidas |-> Len(f.rows) - Len(DfValid(f)),
      infratores_inseridos |-> inseridos_,
      infratores_atualizados |-> atualizados_,
      registros_com_erro |-> Len(erros_),
      erros |-> SubSeq(erros_, 1, IF Len(erros_) < MaxErros THEN Len(erros_) ELSE MaxErros) ]

NoResp == [status |-> 0]
NoExisting == [found |-> FALSE]

-----------------------------------------------------------------------------
(* State *)

VARIABLES
    store,          \* infrator_collection: the documents in insertion order; _id is the position
    nruns,          \* requests received so far
    pc,             \* per request slot: "idle", "scan", "insert", "find", "update", "done"
    file,           \* the upload being processed
    snapshot,       \* existing_infratores
    grupos,         \* infratores_agrupados
    paraInserir,    \* infratores_para_inserir
    paraAtualizar,  \* infratores_para_atualizar
    erros,          \* erros
    inseridos,      \* infratores_inseridos
    atualizados,    \* atualizacoes_realizadas
    idx,            \* position of the update loop in infratores_para_atualizar
    existingDoc,    \* existing_doc of the current iteration
    resp,           \* the response of the request, once it has one
    calls,          \* the storage calls the request has issued so far (history)
    store0,         \* the collection as it was when the request arrived (history)
    seen,           \* per key, the earliest start and latest end of every accepted row so far (history)
    memo            \* an upload ingested earlier by a run whose storage calls all succeeded (history)

runVars == <<pc, file, snapshot, grupos, paraInserir, paraAtualizar, erros,
             inseridos, atualizados, idx, existingDoc, resp, calls, store0>>

vars == <<store, nruns, seen, memo, runVars>>

Init ==
    /\ store = <<>>
    /\ nruns = 0
    /\ seen = [k \in {} |-> [lo |-> 0, hi |-> 0]]
    /\ memo = NoFile
    /\ pc = [p \in AllProcs |-> "idle"]
    /\ file = [p \in AllProcs |-> NoFile]
    /\ snapshot = [p \in AllProcs |-> EmptySnapshot]
    /\ grupos = [p \in AllProcs |-> <<>>]
    /\ paraInserir = [p \in AllProcs |-> <<>>]
    /\ paraAtualizar = [p \in AllProcs |-> <<>>]
    /\ erros = [p \in AllProcs |-> <<>>]
    /\ inseridos = [p \in AllProcs |-> 0]
    /\ atualizados = [p \in AllProcs |-> 0]
    /\ idx = [p \in AllProcs |-> 0]
    /\ existingDoc = [p \in AllProcs |-> NoExisting]
    /\ resp = [p \in AllProcs |-> NoResp]
    /\ calls = [p \in AllProcs |-> <<>>]
    /\ store0 = [p \in AllProcs |-> <<>>]

\* The rows of f that reach the grouping with a name: valid dates, non-blank name.
AcceptedRows(f) ==
    {i \in 1..Len(f.rows) : RowHasValidDates(f, i) /\ get_safe_value(f, i, NOME) # <<>>}

RowKey(f, i) ==
    MakeKey(get_safe_value(f, i, NOME), get_safe_value(f, i, MUNICIPIO), get_safe_value(f, i, UF))

RowsOfKey(f, k) == {i \in AcceptedRows(f) : RowKey(f, i) = k}

FileKeys(f) == {RowKey(f, i) : i \in AcceptedRows(f)}

\* seen after the accepted rows of f.
SeenAfter(sn, f) ==
    [k \in DOMAIN sn \cup FileKeys(f) |->
        LET los == {DtInicioConverted(f, i) : i \in RowsOfKey(f, k)}
                   \cup (IF k \in DOMAIN sn THEN {sn[k].lo} ELSE {})
            his == {DtFimConverted(f, i) : i \in RowsOfKey(f, k)}
                   \cup (IF k \in DOMAIN sn THEN {sn[k].hi} ELSE {})
        IN  [lo |-> Min(los), hi |-> Max(his)]]

Call(op, ok, id) == [op |-> op, ok |-> ok, id |-> id]

-----------------------------------------------------------------------------
(* Actions *)

\* The request arrives and is rejected by the checks of lines 23-49.
UploadRejected(p, f) ==
    /\ pc[p] = "idle"
    /\ nruns < MaxRuns
    /\ Validate(f).exc # "none"
    /\ nruns' = nruns + 1
    /\ file' = [file EXCEPT ![p] = f]
    /\ store0' = [store0 EXCEPT ![p] = store]
    /\ resp' = [resp EXCEPT ![p] = ErrorResponse(OuterExcept(Validate(f)))]
    /\ pc' = [pc EXCEPT ![p] = "done"]
    /\ UNCHANGED <<store, seen, memo, snapshot, grupos, paraInserir, paraAtualizar, erros,
                   inseridos, atualizados, idx, existingDoc, calls>>

\* The request arrives, passes the checks and reaches the scan (its first await
\* on the collection).
UploadAccepted(p, f) ==
    /\ pc[p] = "idle"
    /\ nruns < MaxRuns
    /\ Validate(f).exc = "none"
    /\ nruns' = nruns + 1
    /\ file' = [file EXCEPT ![p] = f]
    /\ store0' = [store0 EXCEPT ![p] = store]
    /\ pc' = [pc EXCEPT ![p] = "scan"]
    /\ UNCHANGED <<store, seen, memo, snapshot, grupos, paraInserir, paraAtualizar, erros,
                   inseridos, atualizados, idx, existingDoc, resp, calls>>

\* Where the handler goes once the insert is behind it.
AfterInsert(p, erros_, inseridos_) ==
    IF paraAtualizar'[p] # <<>>
    THEN /\ pc' = [pc EXCEPT ![p] = "find"]
         /\ idx' = [idx EXCEPT ![p] = 1]
         /\ resp' = resp
    ELSE /\ pc' = [pc EXCEPT ![p] = "done"]
         /\ idx' = idx
         /\ resp' = [resp EXCEPT ![p] = Summary(file[p], erros_, inseridos_, 0)]

\* Lines 84-193 with the snapshot snap: grouping, reconciliation, and on to
\* the first write.
GroupAndReconcile(p, snap, scanOk) ==
    LET ag == Agrupar(file[p])
        rec == Reconcile(ag.grupos, snap)
    IN  /\ snapshot' = [snapshot EXCEPT ![p] = snap]
        /\ grupos' = [grupos EXCEPT ![p] = ag.grupos]
        /\ erros' = [erros EXCEPT ![p] = ag.erros]
        /\ paraInserir' = [paraInserir EXCEPT ![p] = rec.inserir]
        /\ paraAtualizar' = [paraAtualizar EXCEPT ![p] = rec.atualizar]
        /\ calls' = [calls EXCEPT ![p] = Append(@, Call("find", scanOk, 0))]
        /\ seen' = SeenAfter(seen, file[p])
        /\ IF rec.inserir # <<>>
           THEN /\ pc' = [pc EXCEPT ![p] = "insert"]
                /\ UNCHANGED <<idx, resp>>
           ELSE AfterInsert(p, ag.erros, 0)
        /\ UNCHANGED <<store, nruns, file, inseridos, atualizados, existingDoc>>

\* The scan of the collection succeeds.
ScanOk(p) ==
    /\ pc[p] = "scan"
    /\ UNCHANGED <<memo, store0>>
    /\ GroupAndReconcile(p, Snapshot(store), TRUE)

\* A failed scan after which the handler keeps what it has read.
ScanFailKeepsSnapshot(p) ==
    /\ pc[p] = "scan"
    /\ UNCHANGED <<memo, store0>>
    /\ GroupAndReconcile(p, Snapshot(store), FALSE)

\* The scan raises: the handler continues with an empty cache.
ScanFail(p) ==
    /\ pc[p] = "scan"
    /\ UNCHANGED <<memo, store0>>
    /\ GroupAndReconcile(p, EmptySnapshot, FALSE)

\* insert_many that leaves out the documents whose key is already stored.
InsertOkUnique(p) ==
    /\ pc[p] = "insert"
    /\ UNCHANGED <<memo, store0>>
    /\ store' = store \o SelectSeq(paraInserir[p], LAMBDA d : DocKey(d) \notin DOMAIN Snapshot(store))
    /\ inseridos' = [inseridos EXCEPT ![p] = Len(paraInserir[p])]
    /\ calls' = [calls EXCEPT ![p] = Append(@, Call("insert_many", TRUE, 0))]
    /\ UNCHANGED <<paraAtualizar, erros>>
    /\ AfterInsert(p, erros[p], Len(paraInserir[p]))
    /\ UNCHANGED <<nruns, seen, file, snapshot, grupos, paraInserir, atualizados, existingDoc>>

\* insert_many succeeds.
InsertOk(p) ==
    /\ pc[p] = "insert"
    /\ UNCHANGED <<memo, store0>>
    /\ store' = store \o paraInserir[p]
    /\ inseridos' = [inseridos EXCEPT ![p] = Len(paraInserir[p])]
    /\ calls' = [calls EXCEPT ![p] = Append(@, Call("insert_many", TRUE, 0))]
    /\ UNCHANGED <<paraAtualizar, erros>>
    /\ AfterInsert(p, erros[p], Len(paraInserir[p]))
    /\ UNCHANGED <<nruns, seen, file, snapshot, grupos, paraInserir, atualizados, existingDoc>>

InsertError == [tipo |-> "insercao", linha |-> 0]
UpdateError == [tipo |-> "atualizacao", linha |-> 0]

\* insert_many raises after inserting the first n documents of the batch.
InsertFail(p) ==
    /\ pc[p] = "insert"
    /\ UNCHANGED <<memo, store0>>
    /\ \E n \in 0..(Len(paraInserir[p]) - 1) :
          store' = store \o SubSeq(paraInserir[p], 1, n)
    /\ erros' = [erros EXCEPT ![p] = Append(@, InsertError)]
    /\ calls' = [calls EXCEPT ![p] = Append(@, Call("insert_many", FALSE, 0))]
    /\ UNCHANGED paraAtualizar
    /\ AfterInsert(p, erros'[p], 0)
    /\ UNCHANGED <<nruns, seen, file, snapshot, grupos, paraInserir, inseridos, atualizados,
                   existingDoc>>

\* find_one of the current update record returns.
FindOk(p) ==
    /\ pc[p] = "find"
    /\ UNCHANGED <<memo, store0>>
    /\ LET id == paraAtualizar[p][idx[p]].id
       IN  /\ existingDoc' = [existingDoc EXCEPT ![p] =
                 IF id \in 1..Len(store) THEN [found |-> TRUE, doc |-> store[id]]
                 ELSE NoExisting]
           /\ calls' = [calls EXCEPT ![p] = Append(@, Call("find_one", TRUE, id))]
    /\ pc' = [pc EXCEPT ![p] = "update"]
    /\ UNCHANGED <<store, nruns, seen, file, snapshot, grupos, paraInserir, paraAtualizar,
                   erros, inseridos, atualizados, idx, resp>>

\* An except clause that records the error and tries the same record again.
UpdateLoopRetry(p) ==
    /\ erros' = [erros EXCEPT ![p] = Append(@, UpdateError)]
    /\ resp' = resp
    /\ pc' = [pc EXCEPT ![p] = "find"]

\* An exception in the update loop: the except clause is outside the for
\* loop, so the loop ends and the handler goes on to the summary.
UpdateLoopExcept(p) ==
    /\ erros' = [erros EXCEPT ![p] = Append(@, UpdateError)]
    /\ resp' = [resp EXCEPT ![p] = Summary(file[p], erros'[p], inseridos[p], atualizados[p])]
    /\ pc' = [pc EXCEPT ![p] = "done"]

\* find_one raises.
FindFail(p) ==
    /\ pc[p] = "find"
    /\ UNCHANGED <<memo, store0>>
    /\ calls' = [calls EXCEPT ![p] = Append(@, Call("find_one", FALSE, paraAtualizar[p][idx[p]].id))]
    /\ UpdateLoopExcept(p)
    /\ UNCHANGED <<store, nruns, seen, file, snapshot, grupos, paraInserir, paraAtualizar,
                   inseridos, atualizados, idx, existingDoc>>

\* update_one that compares the dates with the stored document, not with the
\* copy read by find_one.
UpdateOkAtomic(p) ==
    /\ pc[p] = "update"
    /\ UNCHANGED <<memo, store0>>
    /\ LET ud == paraAtualizar[p][idx[p]]
       IN  /\ store' = IF ud.id \in 1..Len(store)
                       THEN [store EXCEPT ![ud.id] =
                               ApplyUpdate(@, UpdateFields(ud, [found |-> TRUE, doc |-> store[ud.id]]))]
                       ELSE store
           /\ calls' = [calls EXCEPT ![p] = Append(@, Call("update_one", TRUE, ud.id))]
    /\ atualizados' = [atualizados EXCEPT ![p] = @ + 1]
    /\ existingDoc' = [existingDoc EXCEPT ![p] = NoExisting]
    /\ IF idx[p] < Len(paraAtualizar[p])
       THEN /\ idx' = [idx EXCEPT ![p] = @ + 1]
            /\ pc' = [pc EXCEPT ![p] = "find"]
            /\ resp' = resp
       ELSE /\ idx' = idx
            /\ pc' = [pc EXCEPT ![p] = "done"]
            /\ resp' = [resp EXCEPT ![p] =
                  Summary(file[p], erros[p], inseridos[p], atualizados'[p])]
    /\ UNCHANGED <<nruns, seen, file, snapshot, grupos, paraInserir, paraAtualizar, erros,
                   inseridos>>

\* update_one of the current update record succeeds; the loop goes on.
UpdateOk(p) ==
    /\ pc[p] = "update"
    /\ UNCHANGED <<memo, store0>>
    /\ LET ud == paraAtualizar[p][idx[p]]
       IN  /\ store' = IF ud.id \in 1..Len(store)
                       THEN [store EXCEPT ![ud.id] = ApplyUpdate(@, UpdateFields(ud, existingDoc[p]))]
                       ELSE store
           /\ calls' = [calls EXCEPT ![p] = Append(@, Call("update_one", TRUE, ud.id))]
    /\ atualizados' = [atualizados EXCEPT ![p] = @ + 1]
    /\ existingDoc' = [existingDoc EXCEPT ![p] = NoExisting]
    /\ IF idx[p] < Len(paraAtualizar[p])
       THEN /\ idx' = [idx EXCEPT ![p] = @ + 1]
            /\ pc' = [pc EXCEPT ![p] = "find"]
            /\ resp' = resp
       ELSE /\ idx' = idx
            /\ pc' = [pc EXCEPT ![p] = "done"]
            /\ resp' = [resp EXCEPT ![p] =
                  Summary(file[p], erros[p], inseridos[p], atualizados'[p])]
    /\ UNCHANGED <<nruns, seen, file, snapshot, grupos, paraInserir, paraAtualizar, erros,
                   inseridos>>

\* update_one raises.
UpdateFail(p) ==
    /\ pc[p] = "update"
    /\ UNCHANGED <<memo, store0>>
    /\ calls' = [calls EXCEPT ![p] = Append(@, Call("update_one", FALSE, paraAtualizar[p][idx[p]].id))]
    /\ UpdateLoopExcept(p)
    /\ UNCHANGED <<store, nruns, seen, file, snapshot, grupos, paraInserir, paraAtualizar,
                   inseridos, atualizados, idx, existingDoc>>

\* The response is sent; the slot is free for the next request.
ReturnBody(p) ==
    /\ pc[p] = "done"
    /\ pc' = [pc EXCEPT ![p] = "idle"]
    /\ file' = [file EXCEPT ![p] = NoFile]
    /\ snapshot' = [snapshot EXCEPT ![p] = EmptySnapshot]
    /\ grupos' = [grupos EXCEPT ![p] = <<>>]
    /\ paraInserir' = [paraInserir EXCEPT ![p] = <<>>]
    /\ paraAtualizar' = [paraAtualizar EXCEPT ![p] = <<>>]
    /\ erros' = [erros EXCEPT ![p] = <<>>]
    /\ inseridos' = [inseridos EXCEPT ![p] = 0]
    /\ atualizados' = [atualizados EXCEPT ![p] = 0]
    /\ idx' = [idx EXCEPT ![p] = 0]
    /\ existingDoc' = [existingDoc EXCEPT ![p] = NoExisting]
    /\ resp' = [resp EXCEPT ![p] = NoResp]
    /\ calls' = [calls EXCEPT ![p] = <<>>]
    /\ store0' = [store0 EXCEPT ![p] = <<>>]
    /\ UNCHANGED <<store, nruns, seen>>

Return(p) ==
    /\ ReturnBody(p)
    /\ UNCHANGED memo

AllCallsOk(p) == \A n \in 1..Len(calls[p]) : calls[p][n].ok

\* The same step, the observer noting the upload as ingested: the run
\* returned its summary and none of its storage calls failed.
ReturnRemembered(p) ==
    /\ ReturnBody(p)
    /\ resp[p].status = 200
    /\ AllCallsOk(p)
    /\ memo = NoFile
    /\ memo' = file[p]

\* One request at a time (non-overlapping runs), storage calls may fail.
Next ==
    \/ \E f \in Files : UploadRejected(1, f)
    \/ \E f \in Files : UploadAccepted(1, f)
    \/ ScanOk(1)
    \/ ScanFail(1)
    \/ InsertOk(1)
    \/ InsertFail(1)
    \/ FindOk(1)
    \/ FindFail(1)
    \/ UpdateOk(1)
    \/ UpdateFail(1)
    \/ Return(1)

Spec == Init /\ [][Next]_vars

\* One request at a time and no storage call fails.
NextOk ==
    \/ \E f \in Files : UploadRejected(1, f)
    \/ \E f \in Files : UploadAccepted(1, f)
    \/ ScanOk(1)
    \/ InsertOk(1)
    \/ FindOk(1)
    \/ UpdateOk(1)
    \/ Return(1)

SpecOk == Init /\ [][NextOk]_vars

\* As Next, with one earlier upload remembered.
NextIdem ==
    \/ \E f \in Files : UploadRejected(1, f)
    \/ \E f \in Files : UploadAccepted(1, f)
    \/ ScanOk(1)
    \/ ScanFail(1)
    \/ InsertOk(1)
    \/ InsertFail(1)
    \/ FindOk(1)
    \/ FindFail(1)
    \/ UpdateOk(1)
    \/ UpdateFail(1)
    \/ Return(1)
    \/ ReturnRemembered(1)

SpecIdem == Init /\ [][NextIdem]_vars

\* One request at a time, storage calls may fail, uploads of up to MaxBatch rows.
NextBatch ==
    \/ \E f \in BatchFiles : UploadAccepted(1, f)
    \/ ScanOk(1)
    \/ ScanFail(1)
    \/ InsertOk(1)
    \/ InsertFail(1)
    \/ FindOk(1)
    \/ FindFail(1)
    \/ UpdateOk(1)
    \/ UpdateFail(1)
    \/ Return(1)

SpecBatch == Init /\ [][NextBatch]_vars

\* One request at a time, no storage call fails, uploads of TextRows.
NextText ==
    \/ \E f \in TextFiles : UploadAccepted(1, f)
    \/ ScanOk(1)
    \/ InsertOk(1)
    \/ FindOk(1)
    \/ UpdateOk(1)
    \/ Return(1)

SpecText == Init /\ [][NextText]_vars

\* The collection after one run, all of whose storage calls succeeded, has
\* ingested f into the empty collection.
StoreAfter(f) == Reconcile(Agrupar(f).grupos, EmptySnapshot).inserir

\* As Init, after one such run.
InitConc ==
    /\ \E f \in ConcFiles :
          /\ store = StoreAfter(f)
          /\ seen = SeenAfter([k \in {} |-> [lo |-> 0, hi |-> 0]], f)
    /\ nruns = 0
    /\ memo = NoFile
    /\ pc = [p \in AllProcs |-> "idle"]
    /\ file = [p \in AllProcs |-> NoFile]
    /\ snapshot = [p \in AllProcs |-> EmptySnapshot]
    /\ grupos = [p \in AllProcs |-> <<>>]
    /\ paraInserir = [p \in AllProcs |-> <<>>]
    /\ paraAtualizar = [p \in AllProcs |-> <<>>]
    /\ erros = [p \in AllProcs |-> <<>>]
    /\ inseridos = [p \in AllProcs |-> 0]
    /\ atualizados = [p \in AllProcs |-> 0]
    /\ idx = [p \in AllProcs |-> 0]
    /\ existingDoc = [p \in AllProcs |-> NoExisting]
    /\ resp = [p \in AllProcs |-> NoResp]
    /\ calls = [p \in AllProcs |-> <<>>]
    /\ store0 = [p \in AllProcs |-> <<>>]

\* Requests may overlap: each await on the collection is a point where the
\* other request's handler can run.  Storage calls may fail.
NextConc ==
    \/ \E p \in AllProcs, f \in ConcFiles : UploadAccepted(p, f)
    \/ \E p \in AllProcs : ScanOk(p)
    \/ \E p \in AllProcs : ScanFail(p)
    \/ \E p \in AllProcs : InsertOk(p)
    \/ \E p \in AllProcs : InsertFail(p)
    \/ \E p \in AllProcs : FindOk(p)
    \/ \E p \in AllProcs : FindFail(p)
    \/ \E p \in AllProcs : UpdateOk(p)
    \/ \E p \in AllProcs : UpdateFail(p)
    \/ \E p \in AllProcs : Return(p)

SpecConc == InitConc /\ [][NextConc]_vars

-----------------------------------------------------------------------------
(* Properties *)

\* Every request slot is free: the runs so far have all completed.
AllIdle == \A p \in AllProcs : pc[p] = "idle"

\* The run of slot p has read its snapshot and grouped its rows.
Grouped(p) == pc[p] \in {"insert", "find", "update", "done"} /\ calls[p] # <<>>

\* The run of slot p has completed with the summary response.
Completed(p) == pc[p] = "done" /\ resp[p].status = 200

\* C1: after any sequence of non-overlapping runs, every stored record's start
\* is the minimum start, and its end the maximum end, over all accepted rows
\* (valid dates, non-blank name) of every run so far that carry the record's key.
C1_StoredExtremaOverAllRuns ==
    AllIdle =>
        \A i \in 1..Len(store) :
            LET k == DocKey(store[i])
            IN  /\ k \in DOMAIN seen
                /\ store[i].dt_inicio_ato_inequivoco = seen[k].lo
                /\ store[i].dt_fim_ato_inequivoco = seen[k].hi

SameOffender(a, b) ==
    /\ a.nome_infrator = b.nome_infrator
    /\ a.municipio = b.municipio
    /\ a.estado = b.estado

\* C2: after any sequence of non-overlapping runs from an empty collection, no
\* two stored records have the same (name, municipality, state).
C2_NoDuplicateOffenders ==
    \A i, j \in 1..Len(store) : SameOffender(store[i], store[j]) => i = j

\* The run of slot p has called find_one or update_one for the record id.
UpdateAttempted(p, id) ==
    \E n \in 1..Len(calls[p]) :
        calls[p][n].op \in {"find_one", "update_one"} /\ calls[p][n].id = id

UpdateCallFailed(p) ==
    \E n \in 1..Len(calls[p]) :
        calls[p][n].op \in {"find_one", "update_one"} /\ ~calls[p][n].ok

\* C3: if the update of one merge-update record fails, the failure is recorded
\* and the run still attempts the update of every other merge-update record.
C3_UpdatesContinueAfterFailure ==
    \A p \in AllProcs :
        (Completed(p) /\ UpdateCallFailed(p)) =>
            /\ InList(UpdateError, erros[p])
            /\ \A n \in 1..Len(paraAtualizar[p]) : UpdateAttempted(p, paraAtualizar[p][n].id)

\* The upload has a wrong extension or lacks a required column.
IsBadUpload(f) ==
    \/ ~EndsWith(f.filename, DotCsv)
    \/ \E c \in {NOME, DT_INICIO, DT_FIM} : c \notin f.cols

\* C4: an upload with a wrong extension or without a required column is
\* answered with a client error (4xx).
C4_BadUploadIsClientError ==
    \A p \in AllProcs :
        (pc[p] = "done" /\ IsBadUpload(file[p])) => resp[p].status \in 400..499

\* C5: an upload with a wrong extension or without a required column is
\* rejected before the snapshot read, any grouping, any insert and any
\* update; the collection is as it was when the request arrived.
C5_BadUploadTouchesNothing ==
    \A p \in AllProcs :
        (pc[p] # "idle" /\ IsBadUpload(file[p])) =>
            /\ pc[p] = "done"
            /\ resp[p].status # 200
            /\ calls[p] = <<>>
            /\ snapshot[p] = EmptySnapshot
            /\ grupos[p] = <<>>
            /\ paraInserir[p] = <<>>
            /\ paraAtualizar[p] = <<>>
            /\ store = store0[p]

C5_Witness ==
    /\ pc[1] = "done"
    /\ IsBadUpload(file[1])
    /\ NOME \notin file[1].cols
    /\ store # <<>>

RowSet(f) == {f.rows[i] : i \in 1..Len(f.rows)}

\* The upload of slot p has the columns, and only rows, of the upload remembered in memo.
IsSubsetOfIngested(p) ==
    /\ memo # NoFile
    /\ pc[p] # "idle"
    /\ file[p].filename = memo.filename
    /\ file[p].utf8 = memo.utf8
    /\ file[p].cols = memo.cols
    /\ RowSet(file[p]) \subseteq RowSet(memo)

IsWrite(call) == call.op \in {"insert_many", "update_one"}

\* C6: a run that ingests a CSV whose rows are a subset of the rows of a CSV
\* ingested earlier performs no insert and no update and leaves the
\* collection unchanged.
C6_SubsetRerunWritesNothing ==
    \A p \in AllProcs :
        IsSubsetOfIngested(p) =>
            /\ \A n \in 1..Len(calls[p]) : ~IsWrite(calls[p][n])
            /\ inseridos[p] = 0
            /\ atualizados[p] = 0
            /\ store = store0[p]

\* C7: within one run there is one accumulator per key of the accepted rows,
\* its start is the minimum of the starts and its end the maximum of the
\* ends of all accepted rows of the file with that key.
C7_GroupExtrema ==
    \A p \in AllProcs :
        Grouped(p) =>
            /\ \A k \in FileKeys(file[p]) :
                  Cardinality({j \in 1..Len(grupos[p]) : grupos[p][j].key = k}) = 1
            /\ \A j \in 1..Len(grupos[p]) :
                  LET g == grupos[p][j]
                      R == RowsOfKey(file[p], g.key)
                  IN  /\ R # {}
                      /\ g.dt_inicio = Min({DtInicioConverted(file[p], i) : i \in R})
                      /\ g.dt_fim = Max({DtFimConverted(file[p], i) : i \in R})

\* A group whose later row lowered the start and raised the end.
C7_Witness ==
    /\ Grouped(1)
    /\ \E j \in 1..Len(grupos[1]) :
          LET g == grupos[1][j]
              first == Min(RowsOfKey(file[1], g.key))
          IN  /\ g.total >= 2
              /\ g.dt_inicio < DtInicioConverted(file[1], first)
              /\ g.dt_fim > DtFimConverted(file[1], first)

\* C8: no history holds the same description twice: not a group's
\* accumulator, not a document queued for insertion, not a stored record.
C8_HistoriesDuplicateFree ==
    /\ \A p \in AllProcs :
          /\ \A j \in 1..Len(grupos[p]) : NoDup(grupos[p][j].historico_infracoes)
          /\ \A j \in 1..Len(paraInserir[p]) : NoDup(paraInserir[p][j].historico_infracoes)
    /\ \A i \in 1..Len(store) : NoDup(store[i].historico_infracoes)

\* Two rows of one key repeat a description and the group lists it once.
C8_Witness ==
    /\ Grouped(1)
    /\ \E j \in 1..Len(grupos[1]) :
          /\ Len(grupos[1][j].historico_infracoes) = 1
          /\ \E i1, i2 \in RowsOfKey(file[1], grupos[1][j].key) :
                /\ i1 # i2
                /\ get_safe_value(file[1], i1, DES_INFRACAO) # <<>>
                /\ get_safe_value(file[1], i1, DES_INFRACAO) = get_safe_value(file[1], i2, DES_INFRACAO)

\* The cell text is empty or whitespace only.
RawBlank(text) == \A n \in 1..Len(text) : text[n] = " "

\* The rows with valid dates whose offender name is blank.
BlankNameRows(f) ==
    {i \in 1..Len(f.rows) : RowHasValidDates(f, i) /\ RawBlank(f.rows[i][NOME])}

\* The upload without the rows of indices S.
WithoutRows(f, S) ==
    LET keep == SelectSeq([i \in 1..Len(f.rows) |-> i], LAMBDA i : i \notin S)
    IN  [f EXCEPT !.rows = [n \in 1..Len(keep) |-> f.rows[keep[n]]]]

\* C9: a row with valid dates and a blank offender name contributes to no
\* group, no inserted document and no update (the groups, the insert batch
\* and the update queue are those of the upload without these rows), and
\* puts exactly one entry in the run's row-level errors.
C9_BlankNameRowOnlyAnError ==
    \A p \in AllProcs :
        Grouped(p) =>
            LET f == file[p]
                B == BlankNameRows(f)
                ag == Agrupar(WithoutRows(f, B))
                rec == Reconcile(ag.grupos, snapshot[p])
            IN  /\ grupos[p] = ag.grupos
                /\ paraInserir[p] = rec.inserir
                /\ paraAtualizar[p] = rec.atualizar
                /\ \A i \in B :
                      Cardinality({n \in 1..Len(erros[p]) : erros[p][n] = RowError(i)}) = 1

\* A run whose upload has a whitespace-only name, a named row and a group.
C9_Witness ==
    /\ Grouped(1)
    /\ grupos[1] # <<>>
    /\ \E i \in BlankNameRows(file[1]) : file[1].rows[i][NOME] # <<>>
    /\ InList(RowError(Min(BlankNameRows(file[1]))), erros[1])

\* The non-blank descriptions the accepted rows of key k carry.
RowDescs(f, k) == {get_safe_value(f, i, DES_INFRACAO) : i \in RowsOfKey(f, k)} \ {<<>>}

ListSet(l) == {l[n] : n \in 1..Len(l)}

\* The descriptions of the upload of slot p that the record id, as stored
\* when the request arrived, lacks.
NewDescs(p, id) ==
    RowDescs(file[p], DocKey(store0[p][id])) \ ListSet(store0[p][id].historico_infracoes)

SuccessfulUpdates(p, id) ==
    {n \in 1..Len(calls[p]) :
        calls[p][n].op = "update_one" /\ calls[p][n].id = id /\ calls[p][n].ok}

\* The run did exactly one update on record id and it appended d to the history.
OneUpdateAdding(p, id) ==
    /\ Cardinality(SuccessfulUpdates(p, id)) = 1
    /\ store[id].historico_infracoes =
          Append(store0[p][id].historico_infracoes, CHOOSE d \in NewDescs(p, id) : TRUE)

StoredOnce(p, id) ==
    \A j \in 1..Len(store0[p]) : DocKey(store0[p][j]) = DocKey(store0[p][id]) => j = id

RowTriple(f, i) ==
    <<get_safe_value(f, i, NOME), get_safe_value(f, i, MUNICIPIO), get_safe_value(f, i, UF)>>

GroupTriple(g) == <<g.nome_infrator, g.municipio, g.estado>>

\* C11: two accepted rows of one file are in the same group if and only if
\* their trimmed name, municipality and state are each equal (one group per
\* triple, counting exactly the rows of that triple), and a group matches a
\* stored record if and only if the three fields are each equal.
C11_GroupsAreTriples ==
    \A p \in AllProcs :
        Grouped(p) =>
            /\ \A i \in AcceptedRows(file[p]) :
                  Cardinality({j \in 1..Len(grupos[p]) :
                                  GroupTriple(grupos[p][j]) = RowTriple(file[p], i)}) = 1
            /\ \A j \in 1..Len(grupos[p]) :
                  LET g == grupos[p][j]
                  IN  /\ g.total = Cardinality({i \in AcceptedRows(file[p]) :
                                                   RowTriple(file[p], i) = GroupTriple(g)})
                      /\ g.key \in DOMAIN snapshot[p] =>
                             SameOffender(store0[p][snapshot[p][g.key].id], g)
                      /\ (\E i \in 1..Len(store0[p]) : SameOffender(store0[p][i], g)) =>
                             g.key \in DOMAIN snapshot[p]

InsertCallFailed(p) ==
    \E n \in 1..Len(calls[p]) : calls[p][n].op = "insert_many" /\ ~calls[p][n].ok

\* C12: if the batch insert call fails, the run reports zero inserted
\* records, records the failure, and still attempts every queued merge-update.
C12_InsertFailureKeepsUpdates ==
    \A p \in AllProcs :
        (Completed(p) /\ InsertCallFailed(p)) =>
            /\ resp[p].infratores_inseridos = 0
            /\ InList(InsertError, erros[p])
            /\ \A n \in 1..Len(paraAtualizar[p]) : UpdateAttempted(p, paraAtualizar[p][n].id)

\* The history entries of group g that the snapshot of slot p lacks for g's key.
NetNew(p, g) == ListSet(g.historico_infracoes) \ ListSet(snapshot[p][g.key].historico_infracoes)

InsertsOf(p, g) == {n \in 1..Len(paraInserir[p]) : DocKey(paraInserir[p][n]) = g.key}

UpdatesOf(p, g) ==
    IF g.key \in DOMAIN snapshot[p]
    THEN {n \in 1..Len(paraAtualizar[p]) : paraAtualizar[p][n].id = snapshot[p][g.key].id}
    ELSE {}

\* C13: reconciliation puts each group in exactly one class: queued for
\* insertion iff its key is absent from the snapshot; queued for update iff
\* its key is in the snapshot and some history entry is not in the snapshot's
\* history, the update carrying exactly those entries; otherwise dropped.
\* Nothing else is queued.
C13_ReconcileClasses ==
    \A p \in AllProcs :
        Grouped(p) =>
            /\ \A j \in 1..Len(grupos[p]) :
                  LET g == grupos[p][j]
                      inSnap == g.key \in DOMAIN snapshot[p]
                  IN  /\ Cardinality(InsertsOf(p, g)) = IF inSnap THEN 0 ELSE 1
                      /\ Cardinality(UpdatesOf(p, g)) =
                             IF inSnap /\ NetNew(p, g) # {} THEN 1 ELSE 0
                      /\ \A n \in UpdatesOf(p, g) :
                             /\ ListSet(paraAtualizar[p][n].novas_infracoes) = NetNew(p, g)
                             /\ NoDup(paraAtualizar[p][n].novas_infracoes)
            /\ \A n \in 1..Len(paraInserir[p]) :
                  \E j \in 1..Len(grupos[p]) : n \in InsertsOf(p, grupos[p][j])
            /\ \A n \in 1..Len(paraAtualizar[p]) :
                  \E j \in 1..Len(grupos[p]) : n \in UpdatesOf(p, grupos[p][j])

\* An update is queued that carries one of the two entries of its group.
C13_Witness ==
    /\ Grouped(1)
    /\ \E j \in 1..Len(grupos[1]) :
          /\ Len(grupos[1][j].historico_infracoes) = 2
          /\ \E n \in UpdatesOf(1, grupos[1][j]) :
                Len(paraAtualizar[1][n].novas_infracoes) = 1

\* Group g of slot p has its key in the snapshot and no entry the snapshot lacks.
NothingNew(p, g) == g.key \in DOMAIN snapshot[p] /\ NetNew(p, g) = {}

\* C14: for a group whose key is in the snapshot and whose history entries
\* are all in the snapshot's history, the run issues no find_one and no
\* update_one for that record, and the record stays as it was when the
\* request arrived.
C14_NothingNewNoCall ==
    \A p \in AllProcs :
        Grouped(p) =>
            \A j \in 1..Len(grupos[p]) :
                NothingNew(p, grupos[p][j]) =>
                    LET id == snapshot[p][grupos[p][j].key].id
                    IN  /\ ~UpdateAttempted(p, id)
                        /\ store[id] = store0[p][id]

\* A completed run dropped a group with an earlier start than the stored
\* one, and wrote to the collection for another group.
C14_Witness ==
    /\ Completed(1)
    /\ \E n \in 1..Len(calls[1]) : IsWrite(calls[1][n]) /\ calls[1][n].ok
    /\ \E j \in 1..Len(grupos[1]) :
          /\ NothingNew(1, grupos[1][j])
          /\ grupos[1][j].dt_inicio <
                store[snapshot[1][grupos[1][j].key].id].dt_inicio_ato_inequivoco

ScanCalls(p) == {n \in 1..Len(calls[p]) : calls[p][n].op = "find"}

InsertCalls(p) == {n \in 1..Len(calls[p]) : calls[p][n].op = "insert_many"}

\* The groups of slot p whose key its snapshot lacks.
NewGroups(p) == {j \in 1..Len(grupos[p]) : grupos[p][j].key \notin DOMAIN snapshot[p]}

\* The records the snapshot of slot p gives for the groups that bring a new entry.
SnapshotTargets(p) ==
    {snapshot[p][grupos[p][j].key].id :
        j \in {i \in 1..Len(grupos[p]) :
                  grupos[p][i].key \in DOMAIN snapshot[p] /\ NetNew(p, grupos[p][i]) # {}}}

\* C15: within one run the existing offenders are read once, before any
\* insert or update of the run, and what the run inserts and updates is
\* decided by that snapshot alone, whatever the collection holds when the
\* writes are issued: it inserts exactly the groups whose key the snapshot
\* lacks and updates only records the snapshot gave for a group with a new entry.
C15_SnapshotDecides ==
    \A p \in AllProcs :
        Grouped(p) =>
            /\ ScanCalls(p) = {1}
            /\ pc[p] # "insert" =>
                  /\ Cardinality(InsertCalls(p)) = IF NewGroups(p) = {} THEN 0 ELSE 1
                  /\ \A n \in InsertCalls(p) :
                        calls[p][n].ok => inseridos[p] = Cardinality(NewGroups(p))
            /\ pc[p] = "insert" => InsertCalls(p) = {} /\ NewGroups(p) # {}
            /\ \A n \in 1..Len(calls[p]) :
                  calls[p][n].op \in {"find_one", "update_one"} =>
                      calls[p][n].id \in SnapshotTargets(p)

\* A run whose scan succeeded is about to insert an offender that its
\* snapshot lacks and the collection, by now, holds.
C15_Witness ==
    /\ pc[1] = "insert"
    /\ Len(calls[1]) = 1
    /\ calls[1][1].ok
    /\ \E n \in 1..Len(paraInserir[1]) :
          /\ DocKey(paraInserir[1][n]) \notin DOMAIN snapshot[1]
          /\ DocKey(paraInserir[1][n]) \in DOMAIN Snapshot(store)

\* The run of slot p took a snapshot without key k, has a group of key k and
\* its insert_many succeeded.
InsertedUnseen(p, k) ==
    /\ Grouped(p)
    /\ calls[p][1].ok
    /\ k \notin DOMAIN snapshot[p]
    /\ \E j \in 1..Len(grupos[p]) : grupos[p][j].key = k
    /\ \E n \in InsertCalls(p) : calls[p][n].ok

RecordsOfKey(k) == {i \in 1..Len(store) : DocKey(store[i]) = k}

\* C16: when two overlapping runs both take their snapshot while a key of
\* both files is not stored and both insert, the collection holds two
\* records for that key; and this interleaving is reachable (C16_Witness).
C16_BothInsertDuplicates ==
    \A k \in FileKeys(file[1]) \cap FileKeys(file[2]) :
        (InsertedUnseen(1, k) /\ InsertedUnseen(2, k)) => Cardinality(RecordsOfKey(k)) >= 2

\* Both runs arrived while the key was not stored, both snapshots lack it,
\* both inserted, and the collection has two records for it.
C16_Witness ==
    \E k \in FileKeys(file[1]) \cap FileKeys(file[2]) :
        /\ InsertedUnseen(1, k)
        /\ InsertedUnseen(2, k)
        /\ Completed(1)
        /\ Completed(2)
        /\ \A p \in AllProcs : \A i \in 1..Len(store0[p]) : DocKey(store0[p][i]) # k
        /\ Cardinality(RecordsOfKey(k)) = 2

\* The step is a successful update_one of slot p.
UpdateOneSucceeds(p) ==
    /\ pc[p] = "update"
    /\ Len(calls'[p]) = Len(calls[p]) + 1
    /\ calls'[p][Len(calls'[p])].ok

\* C17: an update_one sets the start (the end) to the run's value exactly
\* when that value is earlier (later) than the copy the run re-read with
\* find_one, whatever the record holds by then; so with two overlapping runs
\* updating one record a state is reachable where the stored start is later
\* than the earliest start carried by either run (C17_Witness).
C17_UpdateDecidedByReread ==
    [][\A p \in AllProcs :
          (UpdateOneSucceeds(p) /\ existingDoc[p].found) =>
              LET ud == paraAtualizar[p][idx[p]]
                  ed == existingDoc[p].doc
              IN  /\ store'[ud.id].dt_inicio_ato_inequivoco =
                        IF ud.dt_inicio < ed.dt_inicio_ato_inequivoco
                        THEN ud.dt_inicio ELSE store[ud.id].dt_inicio_ato_inequivoco
                  /\ store'[ud.id].dt_fim_ato_inequivoco =
                        IF ud.dt_fim > ed.dt_fim_ato_inequivoco
                        THEN ud.dt_fim ELSE store[ud.id].dt_fim_ato_inequivoco]_vars

\* The run of slot p has completed and its n-th queued update succeeded.
UpdatedBy(p, n) ==
    /\ Completed(p)
    /\ n \in 1..Len(paraAtualizar[p])
    /\ SuccessfulUpdates(p, paraAtualizar[p][n].id) # {}

\* Both runs updated the same record, stored before either arrived, and its
\* start is later than the earlier of the two starts they carried.
C17_Witness ==
    \E n1 \in 1..Len(paraAtualizar[1]), n2 \in 1..Len(paraAtualizar[2]) :
        LET u1 == paraAtualizar[1][n1]
            u2 == paraAtualizar[2][n2]
        IN  /\ UpdatedBy(1, n1)
            /\ UpdatedBy(2, n2)
            /\ u1.id = u2.id
            /\ u1.id \in 1..Len(store0[1])
            /\ u1.id \in 1..Len(store0[2])
            /\ store[u1.id].dt_inicio_ato_inequivoco > Min({u1.dt_inicio, u2.dt_inicio})

\* C18: no step of any run, alone or overlapping with another, removes a
\* record from the collection or an entry from a record's history: every
\* record stays, for the same offender, with at least the entries it had.
C18_OnlyGrows ==
    [][/\ Len(store') >= Len(store)
       /\ \A i \in 1..Len(store) :
             /\ SameOffender(store'[i], store[i])
             /\ ListSet(store[i].historico_infracoes) \subseteq
                   ListSet(store'[i].historico_infracoes)]_vars

\* Two overlapping runs have each added an entry to the same record.
C18_Witness ==
    /\ Completed(1)
    /\ Completed(2)
    /\ store0[1] = store0[2]
    /\ \E id \in 1..Len(store0[1]) :
          /\ SuccessfulUpdates(1, id) # {}
          /\ SuccessfulUpdates(2, id) # {}
          /\ Len(store[id].historico_infracoes) = Len(store0[1][id].historico_infracoes) + 2

\* C19: in non-overlapping runs a stored start changes only to a strictly
\* earlier value and a stored end only to a strictly later one: a stored
\* start never increases and a stored end never decreases.
C19_DatesOnlyWiden ==
    [][\A i \in 1..Len(store) :
          /\ store'[i].dt_inicio_ato_inequivoco # store[i].dt_inicio_ato_inequivoco =>
                store'[i].dt_inicio_ato_inequivoco < store[i].dt_inicio_ato_inequivoco
          /\ store'[i].dt_fim_ato_inequivoco # store[i].dt_fim_ato_inequivoco =>
                store'[i].dt_fim_ato_inequivoco > store[i].dt_fim_ato_inequivoco]_vars

\* A completed run has moved a record's start earlier and its end later.
C19_Witness ==
    /\ Completed(1)
    /\ \E id \in 1..Len(store0[1]) :
          /\ SuccessfulUpdates(1, id) # {}
          /\ store[id].dt_inicio_ato_inequivoco < store0[1][id].dt_inicio_ato_inequivoco
          /\ store[id].dt_fim_ato_inequivoco > store0[1][id].dt_fim_ato_inequivoco

InvalidDateRows(f) == {i \in 1..Len(f.rows) : ~RowHasValidDates(f, i)}

\* The rows with valid dates whose name, once normalized, is empty.
NamelessRows(f) ==
    {i \in 1..Len(f.rows) : RowHasValidDates(f, i) /\ get_safe_value(f, i, NOME) = <<>>}

RECURSIVE SumTotals(_)
SumTotals(gs) == IF gs = <<>> THEN 0 ELSE Head(gs).total + SumTotals(Tail(gs))

RowErrorsOf(p, i) == {n \in 1..Len(erros[p]) : erros[p][n] = RowError(i)}

\* C20: in a completed run every uploaded row is accounted for in exactly one
\* way: counted as invalid-date (start or end unparseable, whatever its
\* name), recorded once as a row-level error (valid dates, blank name), or
\* merged into exactly one group; rows read = valid rows + invalid-date rows.
C20_RowsAccounted ==
    \A p \in AllProcs :
        Completed(p) =>
            LET f == file[p]
            IN  /\ resp[p].total_registros = Len(f.rows)
                /\ resp[p].registros_com_datas_invalidas = Cardinality(InvalidDateRows(f))
                /\ resp[p].total_registros =
                      resp[p].registros_validos + resp[p].registros_com_datas_invalidas
                /\ \A i \in InvalidDateRows(f) : RowErrorsOf(p, i) = {}
                /\ \A i \in NamelessRows(f) : Cardinality(RowErrorsOf(p, i)) = 1
                /\ BlankNameRows(f) \subseteq NamelessRows(f)
                /\ \A i \in AcceptedRows(f) :
                      /\ RowErrorsOf(p, i) = {}
                      /\ Cardinality({j \in 1..Len(grupos[p]) :
                                         grupos[p][j].key = RowKey(f, i)}) = 1
                /\ SumTotals(grupos[p]) = Cardinality(AcceptedRows(f))

\* A completed run of two rows: one with an unparseable date and a blank
\* name, counted as invalid-date only, and one that was grouped.
C20_Witness ==
    /\ Completed(1)
    /\ Len(file[1].rows) = 2
    /\ \E i \in InvalidDateRows(file[1]) : RawBlank(file[1].rows[i][NOME])
    /\ resp[1].registros_com_datas_invalidas = 1
    /\ erros[1] = <<>>
    /\ Len(grupos[1]) = 1

\* C21: in the summary of a completed run, registros_com_erro is the number
\* of valid-date rows of the file whose offender name is blank, whatever
\* happens during the batch insert and the updates.
C21_ErrorCountIsBlankNames ==
    \A p \in AllProcs :
        Completed(p) => resp[p].registros_com_erro = Cardinality(NamelessRows(file[p]))

FailedCalls(p) == {n \in 1..Len(calls[p]) : ~calls[p][n].ok}

\* The entries of erros that are not row-level errors.
StorageErrors(p) == {n \in 1..Len(erros[p]) : erros[p][n].tipo # "linha"}

\* C22: every storage failure during a run (scan, batch insert, update) is
\* recovered locally: the run returns the summary, not an error response,
\* and each failure is reflected in the summary's errors.
C22_FailuresRecoveredAndReported ==
    \A p \in AllProcs :
        (pc[p] = "done" /\ calls[p] # <<>>) =>
            /\ resp[p].status = 200
            /\ Cardinality(StorageErrors(p)) = Cardinality(FailedCalls(p))
            /\ resp[p].registros_com_erro >= Cardinality(FailedCalls(p))

CallsOn(p, op, id) ==
    {n \in 1..Len(calls[p]) : calls[p][n].op = op /\ calls[p][n].id = id}

QueuedIds(p) == {paraAtualizar[p][n].id : n \in 1..Len(paraAtualizar[p])}

\* C23: a run issues at most one batch insert call, holding every new group,
\* before any update call, and at most one find_one and one update_one per
\* merge-update record; no storage call is issued again after a failure.
C23_OneCallEach ==
    \A p \in AllProcs :
        /\ Cardinality(ScanCalls(p)) <= 1
        /\ Cardinality(InsertCalls(p)) <= 1
        /\ \A n \in InsertCalls(p) :
              /\ Len(paraInserir[p]) = Cardinality(NewGroups(p))
              /\ calls[p][n].ok =>
                    SubSeq(store, Len(store0[p]) + 1, Len(store0[p]) + Len(paraInserir[p]))
                        = paraInserir[p]
              /\ \A m \in 1..Len(calls[p]) :
                    calls[p][m].op \in {"find_one", "update_one"} => n < m
        /\ \A m \in 1..Len(calls[p]) :
              calls[p][m].op \in {"find_one", "update_one"} =>
                  /\ calls[p][m].id \in QueuedIds(p)
                  /\ Cardinality(CallsOn(p, calls[p][m].op, calls[p][m].id)) = 1
        /\ Len(calls[p]) <= 2 + 2 * Len(paraAtualizar[p])

\* A completed run whose insert failed and whose update succeeded: four
\* calls, none repeated.
C23_Witness ==
    /\ Completed(1)
    /\ InsertCallFailed(1)
    /\ \E id \in QueuedIds(1) : SuccessfulUpdates(1, id) # {}
    /\ Len(calls[1]) = 4

\* C24: when the uploaded CSV is parsed, the empty string is the only field
\* text turned into a missing value; any other text reaches normalization
\* as the string that was uploaded.
C24_OnlyEmptyIsMissing ==
    \A p \in AllProcs :
        pc[p] # "idle" =>
            \A i \in 1..Len(file[p].rows) : \A c \in file[p].cols :
                LET text == file[p].rows[i][c]
                IN  ReadCsvCell(text) = IF text = <<>> THEN NaN ELSE [na |-> FALSE, s |-> text]

\* The indices of the accepted rows of key k whose description is not blank
\* once normalized, in file order.
DescribedRows(f, k) ==
    SelectSeq([i \in 1..Len(f.rows) |-> i],
              LAMBDA i : i \in RowsOfKey(f, k) /\ get_safe_value(f, i, DES_INFRACAO) # <<>>)

\* The first occurrences of the elements of a sequence, in order.
RECURSIVE FirstOccurrences(_)
FirstOccurrences(l) ==
    IF l = <<>> THEN <<>>
    ELSE LET front == FirstOccurrences(SubSeq(l, 1, Len(l) - 1))
         IN  IF InList(l[Len(l)], front) THEN front ELSE Append(front, l[Len(l)])

\* C25: within one run a group's history lists the distinct non-blank
\* descriptions of its rows, trimmed, in order of first occurrence in the
\* file; two descriptions are the same only if they are equal, case
\* included, after trimming.
C25_HistoryInFileOrder ==
    \A p \in AllProcs :
        Grouped(p) =>
            \A j \in 1..Len(grupos[p]) :
                LET rows == DescribedRows(file[p], grupos[p][j].key)
                IN  grupos[p][j].historico_infracoes =
                        FirstOccurrences([n \in 1..Len(rows) |->
                                             Strip(file[p].rows[rows[n]][DES_INFRACAO])])

\* The scenario: descriptions c then p for one key, the second row with the
\* earlier start and the later end.
C25_Witness ==
    /\ Grouped(1)
    /\ Len(file[1].rows) = 2
    /\ file[1].rows[1][DES_INFRACAO] = <<"c">>
    /\ file[1].rows[2][DES_INFRACAO] = <<"p">>
    /\ Len(grupos[1]) = 1
    /\ grupos[1][1].historico_infracoes = << <<"c">>, <<"p">> >>
    /\ grupos[1][1].dt_inicio = 1
    /\ grupos[1][1].dt_fim = 3

ScanFailed(p) == Grouped(p) /\ ~calls[p][1].ok

\* C26: if the scan of existing offenders fails, the run proceeds with an
\* empty snapshot: every group of the upload is queued for insertion and
\* none for update, groups whose key is already stored included.
C26_FailedScanInsertsAll ==
    \A p \in AllProcs :
        ScanFailed(p) =>
            /\ snapshot[p] = EmptySnapshot
            /\ paraAtualizar[p] = <<>>
            /\ Len(paraInserir[p]) = Len(grupos[p])
            /\ \A j \in 1..Len(grupos[p]) : paraInserir[p][j] = CleanDoc(grupos[p][j])

\* After a failed scan a group is queued for insertion whose key was stored
\* when the request arrived.
C26_Witness ==
    /\ ScanFailed(1)
    /\ \E n \in 1..Len(paraInserir[1]) :
          DocKey(paraInserir[1][n]) \in DOMAIN Snapshot(store0[1])

\* Every row of the upload has start <= end (rows with an unparseable date aside).
RowsOrdered(f) ==
    \A i \in 1..Len(f.rows) :
        RowHasValidDates(f, i) => DtInicioConverted(f, i) <= DtFimConverted(f, i)

\* C27: if every uploaded row has start <= end and every initially stored
\* record has start <= end, every stored record has start <= end after any
\* interleaving of runs, overlapping ones included.
C27_StartNotAfterEnd ==
    (\A p \in AllProcs : RowsOrdered(file[p])) =>
        \A i \in 1..Len(store) :
            store[i].dt_inicio_ato_inequivoco <= store[i].dt_fim_ato_inequivoco

\* Two overlapping runs have updated the same record, one moving its start
\* and one its end.
C27_Witness ==
    /\ Completed(1)
    /\ Completed(2)
    /\ store0[1] = store0[2]
    /\ \E id \in 1..Len(store0[1]) :
          /\ SuccessfulUpdates(1, id) # {}
          /\ SuccessfulUpdates(2, id) # {}
          /\ store[id].dt_inicio_ato_inequivoco < store0[1][id].dt_inicio_ato_inequivoco
          /\ store[id].dt_fim_ato_inequivoco > store0[1][id].dt_fim_ato_inequivoco

\* The fields of a record that no update is to touch.
FixedFields(doc) ==
    <<doc.nome_infrator, doc.infracao_area, doc.municipio, doc.estado, doc.des_local_infracao>>

\* C28: an update issued by a run changes only the history, the start and
\* the end of the targeted record: its name, area, municipality, state and
\* location description, and every other stored record, stay as they were,
\* and no record is added.
C28_UpdateFrame ==
    [][\A p \in AllProcs :
          UpdateOneSucceeds(p) =>
              LET id == paraAtualizar[p][idx[p]].id
              IN  /\ Len(store') = Len(store)
                  /\ FixedFields(store'[id]) = FixedFields(store[id])
                  /\ \A i \in 1..Len(store) : i # id => store'[i] = store[i]]_vars

\* A completed run updated a record with rows of another area, and the
\* collection holds a second record.
C28_Witness ==
    /\ Completed(1)
    /\ Len(store) >= 2
    /\ \E j \in 1..Len(grupos[1]) :
          LET g == grupos[1][j]
          IN  /\ g.key \in DOMAIN snapshot[1]
              /\ SuccessfulUpdates(1, snapshot[1][g.key].id) # {}
              /\ g.infracao_area # store[snapshot[1][g.key].id].infracao_area
              /\ Len(store[snapshot[1][g.key].id].historico_infracoes) >
                    Len(store0[1][snapshot[1][g.key].id].historico_infracoes)

\* The permutations of 1..n.
Perms(n) == {s \in [1..n -> 1..n] : \A i, j \in 1..n : s[i] = s[j] => i = j}

Permuted(f, s) == [f EXCEPT !.rows = [i \in 1..Len(f.rows) |-> f.rows[s[i]]]]

\* Key, history as a set, start and end of every group.
GroupViews(gs) ==
    {<<gs[j].key, ListSet(gs[j].historico_infracoes), gs[j].dt_inicio, gs[j].dt_fim>> :
        j \in 1..Len(gs)}

InsertedKeys(docs) == {DocKey(docs[n]) : n \in 1..Len(docs)}

UpdatedIds(uds) == {uds[n].id : n \in 1..Len(uds)}

\* C29: for a fixed snapshot, permuting the rows of an upload leaves every
\* group's history (as a set), start and end unchanged, and so the set of
\* inserted keys and the set of updated records.
C29_RowOrderIrrelevant ==
    \A p \in AllProcs :
        Grouped(p) =>
            \A s \in Perms(Len(file[p].rows)) :
                LET ag == Agrupar(Permuted(file[p], s))
                    rec == Reconcile(ag.grupos, snapshot[p])
                IN  /\ GroupViews(ag.grupos) = GroupViews(grupos[p])
                    /\ InsertedKeys(rec.inserir) = InsertedKeys(paraInserir[p])
                    /\ UpdatedIds(rec.atualizar) = UpdatedIds(paraAtualizar[p])

\* An upload of two rows of one key whose other order gives the group
\* another history order and another area.
C29_Witness ==
    /\ Grouped(1)
    /\ Len(grupos[1]) = 1
    /\ \E s \in Perms(Len(file[1].rows)) :
          LET gs == Agrupar(Permuted(file[1], s)).grupos
          IN  /\ Len(gs) = 1
              /\ gs[1].historico_infracoes # grupos[1][1].historico_infracoes
              /\ gs[1].infracao_area # grupos[1][1].infracao_area

\* C30: no run ever puts the empty string in a history: not in a group's
\* accumulator (a blank description adds nothing, in the first row of the
\* group or in a later one), not in a document to insert, not in the entries
\* an update carries, not in a stored record.
C30_NoEmptyEntry ==
    /\ \A p \in AllProcs :
          /\ \A j \in 1..Len(grupos[p]) : ~InList(<<>>, grupos[p][j].historico_infracoes)
          /\ \A j \in 1..Len(paraInserir[p]) : ~InList(<<>>, paraInserir[p][j].historico_infracoes)
          /\ \A j \in 1..Len(paraAtualizar[p]) : ~InList(<<>>, paraAtualizar[p][j].novas_infracoes)
    /\ \A i \in 1..Len(store) : ~InList(<<>>, store[i].historico_infracoes)

\* A record stored with an empty history is updated by a run whose rows for
\* it are one with a blank description, first, and one with a description.
C30_Witness ==
    /\ Completed(1)
    /\ Len(file[1].rows) = 2
    /\ RawBlank(file[1].rows[1][DES_INFRACAO])
    /\ ~RawBlank(file[1].rows[2][DES_INFRACAO])
    /\ \E id \in 1..Len(store0[1]) :
          /\ store0[1][id].historico_infracoes = <<>>
          /\ SuccessfulUpdates(1, id) # {}
          /\ Len(store[id].historico_infracoes) = 1

====
